---- MODULE Spec2Model ----
(***************************************************************************)
(* Model of the status-polling operations of the strato Terraform         *)
(* provider: ClusterResource.{Create,Update,Delete} and                     *)
(* NodePoolResource.{Create,Update,Delete}.  Each operation issues one     *)
(* mutating request and then polls the remote object through              *)
(* retry.Do(fn, Context(ctx), Delay(10s), DelayType(FixedDelay),           *)
(* Attempts(a), RetryIf(p)) of avast/retry-go v4.                          *)
(***************************************************************************)
EXTENDS Integers, Sequences, FiniteSets, TLC

(* ---------------------------------------------------------------------- *)
(* Bounds of the model                                                    *)
(* ---------------------------------------------------------------------- *)
MaxNodeCount == 4

\* pending observations a concurrent loop sees before its final one
MaxPending == 2

\* length of a configured bearer token
MaxTokenLen == 2

\* bytes of a request body beyond the limit of the logged text
MaxExtra == 1

\* node counts a plan may hold (a negative one included)
NodeCounts == (-1)..MaxNodeCount

\* node counts the remote system reports, on both sides of the threshold
ReportedNodeCounts == 3..MaxNodeCount

(* ---------------------------------------------------------------------- *)
(* Program constants                                                      *)
(* ---------------------------------------------------------------------- *)
BaseAttempts == 60

ExtraAttempts == 60

NodeThreshold == 3

DeleteAttempts == 60

RetryDelay == 10

\* bytes of a request body the debug logger writes
LogBodyLimit == 1000

Nil == "<nil>"

Ops == {"ClusterCreate", "ClusterUpdate", "ClusterDelete",
        "NodePoolCreate", "NodePoolUpdate", "NodePoolDelete"}

\* the Read operations, which fetch once and do not poll
ReadOps == {"ClusterRead", "NodePoolRead"}

DeleteOps == {"ClusterDelete", "NodePoolDelete"}

UpdateOps == {"ClusterUpdate", "NodePoolUpdate"}

(* Status strings the remote system may report; BOGUS stands for any      *)
(* string outside both vocabularies.                                      *)
Statuses == {"IN_PROGRESS", "CREATING", "RESIZING", "ERROR", "DELETING",
             "READY", "BOGUS"}

(* ---------------------------------------------------------------------- *)
(* Responses of the API client to a Show request                          *)
(* ---------------------------------------------------------------------- *)
TransportError(msg) ==
    [err |-> msg, code |-> 0, body |-> FALSE, deleted |-> FALSE,
     status |-> "", nodeCount |-> 0]

HttpResponse(code) ==
    [err |-> Nil, code |-> code, body |-> FALSE, deleted |-> FALSE,
     status |-> "", nodeCount |-> 0]

Object(deleted, status, nodeCount) ==
    [err |-> Nil, code |-> 200, body |-> TRUE, deleted |-> deleted,
     status |-> status, nodeCount |-> nodeCount]

NoResponse == TransportError("<none>")

\* Cluster objects carry no node count; the field stays 0 for them.
ObjectsOf(kind) ==
    IF kind = "cluster"
    THEN {Object(d, s, 0) : d \in BOOLEAN, s \in Statuses}
    ELSE {Object(d, s, c) : d \in BOOLEAN, s \in Statuses,
                             c \in ReportedNodeCounts}

ShowResponses(kind) ==
    {TransportError("transport error")}
        \cup {HttpResponse(200), HttpResponse(404), HttpResponse(500)}
        \cup ObjectsOf(kind)

\* the object a polling loop fetches: Cluster.Update polls the default
\* node pool, the other cluster operations poll the cluster
PolledKind(op) ==
    IF op \in {"ClusterCreate", "ClusterDelete"} THEN "cluster" ELSE "nodepool"

\* responses to the mutating request (create, update or delete)
MutateResponses ==
    {TransportError("transport error"), HttpResponse(200), HttpResponse(404),
     HttpResponse(500), Object(FALSE, "", 0)}

\* responses to ListNodePools(OnlyDefault): pools holds the node counts of
\* the pools listed
ListResponses ==
    {[err |-> "transport error", code |-> 0, body |-> FALSE, pools |-> << >>],
     [err |-> Nil, code |-> 500, body |-> FALSE, pools |-> << >>],
     [err |-> Nil, code |-> 200, body |-> FALSE, pools |-> << >>],
     [err |-> Nil, code |-> 200, body |-> TRUE, pools |-> << >>]}
        \cup {[err |-> Nil, code |-> 200, body |-> TRUE, pools |-> <<c>>] :
                c \in ReportedNodeCounts}

HttpStatusError(code) ==
    CASE code = 404 -> "http response status code: 404"
      [] code = 500 -> "http response status code: 500"
      [] code = 200 -> "http response status code: 200"
      [] OTHER -> "http response status code: ?"

(* ---------------------------------------------------------------------- *)
(* calculateRetryAttempts                                                 *)
(* ---------------------------------------------------------------------- *)
\* variant: the threshold itself already doubles the budget
calculateRetryAttempts_AtThreshold(nodeCount) ==
    IF nodeCount >= NodeThreshold
    THEN BaseAttempts + ExtraAttempts
    ELSE BaseAttempts

\* variant: the budget is never doubled
calculateRetryAttempts_NoDoubling(nodeCount) == BaseAttempts

calculateRetryAttempts(nodeCount) ==
    IF nodeCount > NodeThreshold
    THEN BaseAttempts + ExtraAttempts
    ELSE BaseAttempts

(* ---------------------------------------------------------------------- *)
(* The functions handed to retry.Do: the error each returns for a         *)
(* response of the API client (Nil when it returns nil)                   *)
(* ---------------------------------------------------------------------- *)
readCluster(resp) ==
    IF resp.err # Nil THEN resp.err
    ELSE IF resp.code # 200 THEN HttpStatusError(resp.code)
    ELSE IF ~resp.body THEN "cluster is nil"
    ELSE Nil

readNodePool(resp) ==
    IF resp.err # Nil THEN resp.err
    ELSE IF resp.code # 200 THEN HttpStatusError(resp.code)
    ELSE IF ~resp.body THEN "node pool is nil"
    ELSE Nil

\* variant: the READY case is missing from the switch
ClusterCreateStatus_NoReady(status) ==
    CASE status = "IN_PROGRESS" -> "cluster is in progress"
      [] status = "ERROR" -> "cluster is in error state"
      [] status = "DELETING" -> "cluster is in deleting state"
      [] OTHER -> "cluster is in unknown state"

\* variant: DELETING is waited out like IN_PROGRESS
ClusterCreateStatus_DeletingInProgress(status) ==
    CASE status = "IN_PROGRESS" -> "cluster is in progress"
      [] status = "ERROR" -> "cluster is in error state"
      [] status = "DELETING" -> "cluster is in progress"
      [] status = "READY" -> Nil
      [] OTHER -> "cluster is in unknown state"

\* switch data.Status.ValueString() of ClusterResource.Create
ClusterCreateStatus(status) ==
    CASE status = "IN_PROGRESS" -> "cluster is in progress"
      [] status = "ERROR" -> "cluster is in error state"
      [] status = "DELETING" -> "cluster is in deleting state"
      [] status = "READY" -> Nil
      [] OTHER -> "cluster is in unknown state"

\* switch showResult.JSON200.Status of ClusterResource.Update
ClusterUpdateStatus(status) ==
    CASE status = "RESIZING" -> "node pool is in resizing state"
      [] status = "ERROR" -> "node pool is in error state"
      [] status = "DELETING" -> "node pool is in deleting state"
      [] status = "READY" -> Nil
      [] OTHER -> "node pool is in unknown state"

\* switch showResult.JSON200.Status of ClusterResource.Delete
ClusterDeleteStatus(status) ==
    CASE status = "IN_PROGRESS" -> "cluster is in progress"
      [] status = "ERROR" -> "cluster is in error state"
      [] status = "DELETING" -> "cluster is in deleting state"
      [] status = "READY" -> Nil
      [] OTHER -> "cluster is in unknown state"

\* variant: the RESIZING case returns the message of the CREATING case
NodePoolCreateStatus_ResizingAsCreating(status) ==
    CASE status = "CREATING" -> "node pool is creating"
      [] status = "RESIZING" -> "node pool is creating"
      [] status = "ERROR" -> "node pool is in error state"
      [] status = "DELETING" -> "node pool is in deleting state"
      [] status = "READY" -> Nil
      [] OTHER -> "node pool is in unknown state"

\* switch data.Status.ValueString() of NodePoolResource.Create
NodePoolCreateStatus(status) ==
    CASE status = "CREATING" -> "node pool is creating"
      [] status = "RESIZING" -> "node pool is resizing"
      [] status = "ERROR" -> "node pool is in error state"
      [] status = "DELETING" -> "node pool is in deleting state"
      [] status = "READY" -> Nil
      [] OTHER -> "node pool is in unknown state"

\* variant: the default case of the switch returns nil
NodePoolUpdateStatus_UnknownOk(status) ==
    CASE status = "CREATING" -> "node pool is creating"
      [] status = "RESIZING" -> "node pool is resizing"
      [] status = "ERROR" -> "node pool is in error state"
      [] status = "DELETING" -> "node pool is in deleting state"
      [] OTHER -> Nil

\* switch data.Status.ValueString() of NodePoolResource.Update
NodePoolUpdateStatus(status) ==
    CASE status = "CREATING" -> "node pool is creating"
      [] status = "RESIZING" -> "node pool is resizing"
      [] status = "ERROR" -> "node pool is in error state"
      [] status = "DELETING" -> "node pool is in deleting state"
      [] status = "READY" -> Nil
      [] OTHER -> "node pool is in unknown state"

\* switch showResult.JSON200.Status of NodePoolResource.Delete
NodePoolDeleteStatus(status) ==
    CASE status = "CREATING" -> "node pool is creating"
      [] status = "RESIZING" -> "node pool is resizing"
      [] status = "ERROR" -> "node pool is in error state"
      [] status = "DELETING" -> "node pool is in deleting state"
      [] status = "READY" -> Nil
      [] OTHER -> "node pool is in unknown state"

ClusterCreateFetch(resp) ==
    IF readCluster(resp) # Nil THEN readCluster(resp)
    ELSE ClusterCreateStatus(resp.status)

\* variant: a 404 ends the wait successfully, as in a delete loop
ClusterUpdateFetch_NotFoundOk(resp) ==
    IF resp.err # Nil THEN resp.err
    ELSE IF resp.code = 404 THEN Nil
    ELSE IF resp.code # 200 THEN HttpStatusError(resp.code)
    ELSE IF ~resp.body THEN "node pool is nil"
    ELSE ClusterUpdateStatus(resp.status)

ClusterUpdateFetch(resp) ==
    IF resp.err # Nil THEN resp.err
    ELSE IF resp.code # 200 THEN HttpStatusError(resp.code)
    ELSE IF ~resp.body THEN "node pool is nil"
    ELSE ClusterUpdateStatus(resp.status)

\* variant: the 404 check is missing
ClusterDeleteFetch_No404(resp) ==
    IF resp.err # Nil THEN resp.err
    ELSE IF resp.code # 200 THEN HttpStatusError(resp.code)
    ELSE IF ~resp.body THEN "cluster is nil"
    ELSE IF resp.deleted THEN Nil
    ELSE ClusterDeleteStatus(resp.status)

ClusterDeleteFetch(resp) ==
    IF resp.err # Nil THEN resp.err
    ELSE IF resp.code = 404 THEN Nil
    ELSE IF resp.code # 200 THEN HttpStatusError(resp.code)
    ELSE IF ~resp.body THEN "cluster is nil"
    ELSE IF resp.deleted THEN Nil
    ELSE ClusterDeleteStatus(resp.status)

NodePoolCreateFetch(resp) ==
    IF readNodePool(resp) # Nil THEN readNodePool(resp)
    ELSE NodePoolCreateStatus(resp.status)

NodePoolUpdateFetch(resp) ==
    IF readNodePool(resp) # Nil THEN readNodePool(resp)
    ELSE NodePoolUpdateStatus(resp.status)

\* variant: the check of the deleted marker is missing
NodePoolDeleteFetch_NoDeletedCheck(resp) ==
    IF resp.err # Nil THEN resp.err
    ELSE IF resp.code = 404 THEN Nil
    ELSE IF resp.code # 200 THEN HttpStatusError(resp.code)
    ELSE IF ~resp.body THEN "node pool is nil"
    ELSE NodePoolDeleteStatus(resp.status)

NodePoolDeleteFetch(resp) ==
    IF resp.err # Nil THEN resp.err
    ELSE IF resp.code = 404 THEN Nil
    ELSE IF resp.code # 200 THEN HttpStatusError(resp.code)
    ELSE IF ~resp.body THEN "node pool is nil"
    ELSE IF resp.deleted THEN Nil
    ELSE NodePoolDeleteStatus(resp.status)

\* the retryable function of operation op, applied to the client's response
RetryableFunc(op, resp) ==
    CASE op = "ClusterCreate" -> ClusterCreateFetch(resp)
      [] op = "ClusterUpdate" -> ClusterUpdateFetch(resp)
      [] op = "ClusterDelete" -> ClusterDeleteFetch(resp)
      [] op = "NodePoolCreate" -> NodePoolCreateFetch(resp)
      [] op = "NodePoolUpdate" -> NodePoolUpdateFetch(resp)
      [] op = "NodePoolDelete" -> NodePoolDeleteFetch(resp)

(* The retry.RetryIf predicates: string equality with one message.        *)
\* variant: the deleting message is retried too
ClusterCreateRetryIf_AlsoDeleting(err) ==
    err # Nil /\ err \in {"cluster is in progress", "cluster is in deleting state"}

ClusterCreateRetryIf(err) == err # Nil /\ err = "cluster is in progress"

ClusterUpdateRetryIf(err) == err # Nil /\ err = "node pool is in resizing state"

\* variant: every error is retried
ClusterDeleteRetryIf_AnyError(err) == err # Nil

ClusterDeleteRetryIf(err) == err # Nil /\ err = "cluster is in deleting state"

\* variant: every error is retried
NodePoolCreateRetryIf_AnyError(err) == err # Nil

NodePoolCreateRetryIf(err) == err # Nil /\ err = "node pool is creating"

\* variant: the message of the Cluster.Update loop is compared
NodePoolUpdateRetryIf_WrongMessage(err) ==
    err # Nil /\ err = "node pool is in resizing state"

NodePoolUpdateRetryIf(err) == err # Nil /\ err = "node pool is resizing"

\* variant: every transitional status is retried
NodePoolDeleteRetryIf_AllPending(err) ==
    err # Nil /\ err \in {"node pool is in deleting state",
                          "node pool is creating", "node pool is resizing"}

NodePoolDeleteRetryIf(err) == err # Nil /\ err = "node pool is in deleting state"

RetryIf(op, err) ==
    CASE op = "ClusterCreate" -> ClusterCreateRetryIf(err)
      [] op = "ClusterUpdate" -> ClusterUpdateRetryIf(err)
      [] op = "ClusterDelete" -> ClusterDeleteRetryIf(err)
      [] op = "NodePoolCreate" -> NodePoolCreateRetryIf(err)
      [] op = "NodePoolUpdate" -> NodePoolUpdateRetryIf(err)
      [] op = "NodePoolDelete" -> NodePoolDeleteRetryIf(err)

\* readNodePool stores the reported node count and status in the model;
\* readCluster stores the status and leaves the node count alone.
DataAfterRead(kind, resp, d) ==
    IF kind = "nodepool" /\ readNodePool(resp) = Nil
    THEN [NodeCount |-> resp.nodeCount, Status |-> resp.status]
    ELSE IF kind = "cluster" /\ readCluster(resp) = Nil
    THEN [d EXCEPT !.Status = resp.status]
    ELSE d

\* which read helper the retryable function of op calls (the delete loops
\* and the Cluster.Update loop call the client directly)
LoopReader(op) ==
    CASE op \in {"NodePoolCreate", "NodePoolUpdate"} -> "nodepool"
      [] op = "ClusterCreate" -> "cluster"
      [] OTHER -> "none"

\* the read after the loop of an update
FinalReader(op) == IF op = "ClusterUpdate" THEN "cluster" ELSE "nodepool"

(* ---------------------------------------------------------------------- *)
(* retry.Do of avast/retry-go v4, as configured by the call sites         *)
(* ---------------------------------------------------------------------- *)
NilErr == [type |-> "nil", log |-> << >>]

ContextErr == [type |-> "context", log |-> << >>]

\* variant: the collected errors are dropped from the reported error
RetryError_Opaque(log) == [type |-> "retry.Error", log |-> << >>]

RetryError(log) == [type |-> "retry.Error", log |-> log]

\* variant: the last attempt is followed by a delay too
RetryDecision_NoLastBreak(op, e, n, attempts) ==
    IF e = Nil THEN "return"
    ELSE IF ~RetryIf(op, e) THEN "break_retryif"
    ELSE "select"

\* variant: the last-attempt check is off by one
RetryDecision_EarlyLast(op, e, n, attempts) ==
    IF e = Nil THEN "return"
    ELSE IF ~RetryIf(op, e) THEN "break_retryif"
    ELSE IF n = attempts - 2 THEN "break_last"
    ELSE "select"

\* what one pass of the loop body does with the error e the retryable
\* function returned: return nil; break because RetryIf rejects e; break
\* because this was the last attempt; or block in the select
RetryDecision(op, e, n, attempts) ==
    IF e = Nil THEN "return"
    ELSE IF ~RetryIf(op, e) THEN "break_retryif"
    ELSE IF n = attempts - 1 THEN "break_last"
    ELSE "select"

\* loop condition evaluated after the delay: n < config.attempts
LoopContinues(n, attempts) == n < attempts

\* the loop outcome each exit of retry.Do stands for
OutcomeOf(decision) ==
    CASE decision = "return" -> "Converged"
      [] decision = "break_retryif" -> "ConvergenceFailed"
      [] decision = "break_last" -> "TimedOut"
      [] decision = "context" -> "Cancelled"

\* summary of the diagnostic an operation adds on error
ErrorSummary(op) ==
    CASE op = "ClusterCreate" -> "Unable to create cluster"
      [] op = "ClusterUpdate" -> "Unable to update cluster"
      [] op = "ClusterDelete" -> "Unable to delete cluster"
      [] op = "NodePoolCreate" -> "Unable to create node pool"
      [] op = "NodePoolUpdate" -> "Unable to update node pool"
      [] op = "NodePoolDelete" -> "Unable to delete node pool"
      [] op = "ClusterRead" -> "Unable to read cluster"
      [] op = "NodePoolRead" -> "Unable to read node pool"

NoDiag == [summary |-> "", detail |-> NilErr]

\* variant: the delete loops scale their budget with the node count too
AttemptsFor_DeleteScaled(op, nodeCount) == calculateRetryAttempts(nodeCount)

\* budget handed to retry.Attempts
AttemptsFor(op, nodeCount) ==
    IF op \in DeleteOps THEN DeleteAttempts ELSE calculateRetryAttempts(nodeCount)

\* variant: a delete answered with 404 counts as accepted
MutateError_DeleteNotFoundOk(op, resp) ==
    IF resp.err # Nil THEN resp.err
    ELSE IF op \in DeleteOps /\ resp.code = 404 THEN Nil
    ELSE IF op \in DeleteOps /\ resp.code >= 400 THEN HttpStatusError(resp.code)
    ELSE IF op = "ClusterCreate" /\ resp.code # 200 THEN "HTTP error"
    ELSE IF op \notin DeleteOps /\ resp.code # 200 THEN HttpStatusError(resp.code)
    ELSE IF ~resp.body
    THEN (IF op \in {"ClusterCreate", "ClusterUpdate", "ClusterDelete"}
          THEN "cluster is nil" ELSE "node pool is nil")
    ELSE Nil

\* is the response to the mutating request accepted?  Nil if so, else the
\* detail of the diagnostic
MutateError(op, resp) ==
    IF resp.err # Nil THEN resp.err
    ELSE IF op \in DeleteOps /\ resp.code >= 400 THEN HttpStatusError(resp.code)
    ELSE IF op = "ClusterCreate" /\ resp.code # 200 THEN "HTTP error"
    ELSE IF op \notin DeleteOps /\ resp.code # 200 THEN HttpStatusError(resp.code)
    ELSE IF ~resp.body
    THEN (IF op \in {"ClusterCreate", "ClusterUpdate", "ClusterDelete"}
          THEN "cluster is nil" ELSE "node pool is nil")
    ELSE Nil

\* ListNodePools of Cluster.Update: Nil if a default node pool was listed
ListError(resp) ==
    IF resp.err # Nil THEN resp.err
    ELSE IF resp.code # 200 THEN HttpStatusError(resp.code)
    ELSE IF ~resp.body THEN "node pools is nil"
    ELSE IF Len(resp.pools) = 0 THEN "no node pools found"
    ELSE Nil

(* ---------------------------------------------------------------------- *)
(* State                                                                  *)
(* ---------------------------------------------------------------------- *)
VARIABLES
    op,               \* the operation Terraform invoked
    planned,          \* node count of the plan (state, for a delete)
    data,             \* the resource model held by the handler
    cancelled,        \* ctx.Done() is closed
    pc,               \* where the handler is
    defaultNodeCount, \* defaultNodePool.NodeCount of Cluster.Update
    mutations,        \* mutating requests issued
    attempts,         \* config.attempts of retry.Do (0 before the loop)
    n,                \* attempt counter of retry.Do
    errorLog,         \* errors collected by retry.Do
    err,              \* what retry.Do returned
    outcome,          \* how the loop ended ("none" while it has not)
    last,             \* response of the latest polling fetch
    lastErr,          \* what the retryable function returned for it
    fetches,          \* polling fetches issued
    waits,            \* completed inter-attempt delays
    waited,           \* seconds spent in the select of retry.Do
    finalReads,       \* fetches issued after the loop
    diag,             \* error diagnostic of the response
    stateSet,         \* resp.State.Set was called
    lastRead,         \* response of the latest fetch outside a loop
    stateRemoved,     \* the resource was removed from the Terraform state
    mutated,          \* response to the mutating request
    exchange,         \* requests passing through the client's request editors
    loops             \* the retry.Do calls of operations running concurrently

handlerVars == <<op, planned, data, cancelled, pc, defaultNodeCount,
                 mutations, attempts, n, errorLog, err, outcome, last, lastErr,
                 fetches, waits, waited, finalReads, diag, stateSet, lastRead,
                 stateRemoved, mutated>>

vars == <<handlerVars, loops, exchange>>

loopVars == <<attempts, n, errorLog, err, outcome, last, lastErr, fetches,
              waits, waited>>

\* the handler has been called and has read the plan (or the state)
HandlerInit ==
    /\ op \in Ops \cup ReadOps
    /\ planned \in NodeCounts
    /\ data = [NodeCount |-> planned, Status |-> ""]
    /\ cancelled = FALSE
    /\ pc = IF op = "ClusterUpdate" THEN "list"
            ELSE IF op \in ReadOps THEN "refresh"
            ELSE "mutate"
    /\ defaultNodeCount = 0
    /\ mutations = 0
    /\ attempts = 0
    /\ n = 0
    /\ errorLog = << >>
    /\ err = NilErr
    /\ outcome = "none"
    /\ last = NoResponse
    /\ lastErr = Nil
    /\ fetches = 0
    /\ waits = 0
    /\ waited = 0
    /\ finalReads = 0
    /\ diag = NoDiag
    /\ stateSet = FALSE
    /\ lastRead = NoResponse
    /\ stateRemoved = FALSE
    /\ mutated = NoResponse

\* one operation runs, no other runs beside it
Init ==
    /\ HandlerInit
    /\ loops = << >>
    /\ exchange = << >>

\* a request issued with a cancelled context fails in the client
Answers(responses, ctxErr) == IF cancelled THEN {ctxErr} ELSE responses

\* variant: the error retry.Do returned is dropped
AfterLoop_IgnoresError(e) ==
    IF op \in UpdateOps
    THEN /\ pc' = "read"
         /\ UNCHANGED <<diag, stateSet, stateRemoved>>
    ELSE /\ pc' = "done"
         /\ stateSet' = (op \notin DeleteOps)
         /\ stateRemoved' = (op \in DeleteOps)
         /\ UNCHANGED diag

\* the handler's code after retry.Do returned e
AfterLoop(e) ==
    IF e # NilErr
    THEN /\ diag' = [summary |-> ErrorSummary(op), detail |-> e]
         /\ pc' = "done"
         /\ UNCHANGED <<stateSet, stateRemoved>>
    ELSE IF op \in UpdateOps
    THEN /\ pc' = "read"
         /\ UNCHANGED <<diag, stateSet, stateRemoved>>
    ELSE /\ pc' = "done"
         /\ stateSet' = (op \notin DeleteOps)
         /\ stateRemoved' = (op \in DeleteOps)
         /\ UNCHANGED diag

(* ---------------------------------------------------------------------- *)
(* Actions                                                                *)
(* ---------------------------------------------------------------------- *)

\* Cluster.Update lists the default node pool before it mutates
ListDefaultNodePool ==
    /\ pc = "list"
    /\ \E resp \in Answers(ListResponses,
                    [err |-> "context canceled", code |-> 0, body |-> FALSE,
                     pools |-> << >>]) :
         IF ListError(resp) # Nil
         THEN /\ diag' = [summary |-> "Unable to list default node pool",
                          detail |-> RetryError(<<ListError(resp)>>)]
              /\ pc' = "done"
              /\ UNCHANGED defaultNodeCount
         ELSE /\ defaultNodeCount' = resp.pools[1]
              /\ pc' = "mutate"
              /\ UNCHANGED diag
    /\ UNCHANGED <<exchange, loops, mutated, op, planned, data, cancelled, mutations, loopVars,
                   finalReads, stateSet, lastRead, stateRemoved>>

\* variant: Cluster.Update polls the node pool whatever its node count
Mutate_AlwaysPolls ==
    /\ pc = "mutate"
    /\ mutations' = mutations + 1
    /\ \E resp \in Answers(MutateResponses, TransportError("context canceled")) :
         /\ mutated' = resp
         /\ IF MutateError(op, resp) # Nil
            THEN /\ diag' = [summary |-> ErrorSummary(op),
                             detail |-> RetryError(<<MutateError(op, resp)>>)]
                 /\ pc' = "done"
                 /\ UNCHANGED attempts
            ELSE /\ attempts' = AttemptsFor(op, data.NodeCount)
                 /\ pc' = "retry"
                 /\ UNCHANGED diag
    /\ UNCHANGED <<exchange, loops, op, planned, data, cancelled, defaultNodeCount, n,
                   errorLog, err, outcome, last, lastErr, fetches, waits,
                   waited, finalReads, stateSet, lastRead, stateRemoved>>

\* the create, update or delete request, and the budget computed from the
\* planned node count when the request is accepted
Mutate ==
    /\ pc = "mutate"
    /\ mutations' = mutations + 1
    /\ \E resp \in Answers(MutateResponses, TransportError("context canceled")) :
         /\ mutated' = resp
         /\ IF MutateError(op, resp) # Nil
            THEN /\ diag' = [summary |-> ErrorSummary(op),
                             detail |-> RetryError(<<MutateError(op, resp)>>)]
                 /\ pc' = "done"
                 /\ UNCHANGED attempts
            ELSE IF op = "ClusterUpdate" /\ defaultNodeCount = data.NodeCount
            THEN /\ pc' = "read"
                 /\ UNCHANGED <<diag, attempts>>
            ELSE /\ attempts' = AttemptsFor(op, data.NodeCount)
                 /\ pc' = "retry"
                 /\ UNCHANGED diag
    /\ UNCHANGED <<exchange, loops, op, planned, data, cancelled, defaultNodeCount, n,
                   errorLog, err, outcome, last, lastErr, fetches, waits,
                   waited, finalReads, stateSet, lastRead, stateRemoved>>

\* variant: retry.Do does not look at the context before the first call
RetryDo_NoEntryCheck ==
    /\ pc = "retry"
    /\ pc' = "call"
    /\ UNCHANGED <<err, outcome, diag, stateSet, stateRemoved>>
    /\ UNCHANGED <<exchange, loops, mutated, op, planned, data, cancelled, defaultNodeCount, mutations,
                   attempts, n, errorLog, last, lastErr, fetches, waits,
                   waited, finalReads, lastRead>>

\* entry of retry.Do: a context that is already done ends it at once
RetryDo ==
    /\ pc = "retry"
    /\ IF cancelled
       THEN /\ err' = ContextErr
            /\ outcome' = OutcomeOf("context")
            /\ AfterLoop(ContextErr)
       ELSE /\ pc' = "call"
            /\ UNCHANGED <<err, outcome, diag, stateSet, stateRemoved>>
    /\ UNCHANGED <<exchange, loops, mutated, op, planned, data, cancelled, defaultNodeCount, mutations,
                   attempts, n, errorLog, last, lastErr, fetches, waits,
                   waited, finalReads, lastRead>>

\* variant: the mutating request is issued inside the retryable function
Attempt_MutatesInLoop ==
    /\ pc = "call"
    /\ mutations' = mutations + 1
    /\ \E resp \in Answers(ShowResponses(PolledKind(op)),
                           TransportError("context canceled")) :
         LET e == RetryableFunc(op, resp)
             log == IF e = Nil THEN errorLog ELSE Append(errorLog, e)
             d == RetryDecision(op, e, n, attempts)
         IN  /\ last' = resp
             /\ lastErr' = e
             /\ fetches' = fetches + 1
             /\ data' = DataAfterRead(LoopReader(op), resp, data)
             /\ errorLog' = log
             /\ IF d = "select"
                THEN /\ pc' = "wait"
                     /\ UNCHANGED <<err, outcome, diag, stateSet, stateRemoved>>
                ELSE /\ err' = IF d = "return" THEN NilErr ELSE RetryError(log)
                     /\ outcome' = OutcomeOf(d)
                     /\ AfterLoop(err')
    /\ cancelled' \in {cancelled, TRUE}
    /\ UNCHANGED <<exchange, loops, mutated, op, planned, defaultNodeCount,
                   attempts, n, waits, waited, finalReads, lastRead>>

\* variant: the budget is recomputed from the model at every pass
Attempt_RecomputesBudget ==
    /\ pc = "call"
    /\ \E resp \in Answers(ShowResponses(PolledKind(op)),
                           TransportError("context canceled")) :
         LET e == RetryableFunc(op, resp)
             log == IF e = Nil THEN errorLog ELSE Append(errorLog, e)
             d == RetryDecision(op, e, n,
                                AttemptsFor(op, DataAfterRead(LoopReader(op),
                                                              resp, data).NodeCount))
         IN  /\ last' = resp
             /\ lastErr' = e
             /\ fetches' = fetches + 1
             /\ data' = DataAfterRead(LoopReader(op), resp, data)
             /\ attempts' = AttemptsFor(op, data'.NodeCount)
             /\ errorLog' = log
             /\ IF d = "select"
                THEN /\ pc' = "wait"
                     /\ UNCHANGED <<err, outcome, diag, stateSet, stateRemoved>>
                ELSE /\ err' = IF d = "return" THEN NilErr ELSE RetryError(log)
                     /\ outcome' = OutcomeOf(d)
                     /\ AfterLoop(err')
    /\ cancelled' \in {cancelled, TRUE}
    /\ UNCHANGED <<exchange, loops, mutated, op, planned, defaultNodeCount, mutations,
                   n, waits, waited, finalReads, lastRead>>

\* variant: on the last attempt the context is consulted before the
\* attempt count
Attempt_ContextBeforeBudget ==
    /\ pc = "call"
    /\ \E resp \in Answers(ShowResponses(PolledKind(op)),
                           TransportError("context canceled")) :
       \E c \in {cancelled, TRUE} :
         LET e == RetryableFunc(op, resp)
             log == IF e = Nil THEN errorLog ELSE Append(errorLog, e)
             d == RetryDecision(op, e, n, attempts)
         IN  /\ cancelled' = c
             /\ last' = resp
             /\ lastErr' = e
             /\ fetches' = fetches + 1
             /\ data' = DataAfterRead(LoopReader(op), resp, data)
             /\ errorLog' = log
             /\ IF d = "select"
                THEN /\ pc' = "wait"
                     /\ UNCHANGED <<err, outcome, diag, stateSet, stateRemoved>>
                ELSE IF d = "break_last" /\ c
                THEN /\ err' = ContextErr
                     /\ outcome' = OutcomeOf("context")
                     /\ AfterLoop(ContextErr)
                ELSE /\ err' = IF d = "return" THEN NilErr ELSE RetryError(log)
                     /\ outcome' = OutcomeOf(d)
                     /\ AfterLoop(err')
    /\ UNCHANGED <<exchange, loops, mutated, op, planned, defaultNodeCount, mutations,
                   attempts, n, waits, waited, finalReads, lastRead>>

\* one pass of the loop body: the retryable function fetches the object
\* and retry.Do decides on the error it returns; the context may be
\* cancelled while the request is in flight, after the response was read
Attempt ==
    /\ pc = "call"
    /\ \E resp \in Answers(ShowResponses(PolledKind(op)),
                           TransportError("context canceled")) :
         LET e == RetryableFunc(op, resp)
             log == IF e = Nil THEN errorLog ELSE Append(errorLog, e)
             d == RetryDecision(op, e, n, attempts)
         IN  /\ last' = resp
             /\ lastErr' = e
             /\ fetches' = fetches + 1
             /\ data' = DataAfterRead(LoopReader(op), resp, data)
             /\ errorLog' = log
             /\ IF d = "select"
                THEN /\ pc' = "wait"
                     /\ UNCHANGED <<err, outcome, diag, stateSet, stateRemoved>>
                ELSE /\ err' = IF d = "return" THEN NilErr ELSE RetryError(log)
                     /\ outcome' = OutcomeOf(d)
                     /\ AfterLoop(err')
    /\ cancelled' \in {cancelled, TRUE}
    /\ UNCHANGED <<exchange, loops, mutated, op, planned, defaultNodeCount, mutations,
                   attempts, n, waits, waited, finalReads, lastRead>>

\* variant: the delay grows with the attempt number
TimerFires_Backoff ==
    /\ pc = "wait"
    /\ ~cancelled
    /\ n' = n + 1
    /\ waits' = waits + 1
    /\ waited' = waited + RetryDelay * (n + 1)
    /\ IF LoopContinues(n', attempts)
       THEN /\ pc' = "call"
            /\ UNCHANGED <<err, outcome, diag, stateSet, stateRemoved>>
       ELSE /\ err' = RetryError(errorLog)
            /\ outcome' = OutcomeOf("break_last")
            /\ AfterLoop(err')
    /\ UNCHANGED <<exchange, loops, mutated, op, planned, data, cancelled, defaultNodeCount, mutations,
                   attempts, errorLog, last, lastErr, fetches, finalReads,
                   lastRead>>

\* variant: the attempt counter is not advanced after the delay
TimerFires_NoIncrement ==
    /\ pc = "wait"
    /\ ~cancelled
    /\ waits' = waits + 1
    /\ waited' = waited + RetryDelay
    /\ IF LoopContinues(n, attempts)
       THEN /\ pc' = "call"
            /\ UNCHANGED <<err, outcome, diag, stateSet, stateRemoved>>
       ELSE /\ err' = RetryError(errorLog)
            /\ outcome' = OutcomeOf("break_last")
            /\ AfterLoop(err')
    /\ UNCHANGED <<exchange, loops, mutated, op, planned, data, cancelled, defaultNodeCount, mutations,
                   attempts, n, errorLog, last, lastErr, fetches, finalReads,
                   lastRead>>

\* variant: retry.Context(ctx) is not passed, the select only has the timer
TimerFires_NoContext ==
    /\ pc = "wait"
    /\ n' = n + 1
    /\ waits' = waits + 1
    /\ waited' = waited + RetryDelay
    /\ IF LoopContinues(n', attempts)
       THEN /\ pc' = "call"
            /\ UNCHANGED <<err, outcome, diag, stateSet, stateRemoved>>
       ELSE /\ err' = RetryError(errorLog)
            /\ outcome' = OutcomeOf("break_last")
            /\ AfterLoop(err')
    /\ UNCHANGED <<exchange, loops, mutated, op, planned, data, cancelled, defaultNodeCount, mutations,
                   attempts, errorLog, last, lastErr, fetches, finalReads,
                   lastRead>>

\* select: the 10 second timer fires first
TimerFires ==
    /\ pc = "wait"
    /\ ~cancelled
    /\ n' = n + 1
    /\ waits' = waits + 1
    /\ waited' = waited + RetryDelay
    /\ IF LoopContinues(n', attempts)
       THEN /\ pc' = "call"
            /\ UNCHANGED <<err, outcome, diag, stateSet, stateRemoved>>
       ELSE /\ err' = RetryError(errorLog)
            /\ outcome' = OutcomeOf("break_last")
            /\ AfterLoop(err')
    /\ UNCHANGED <<exchange, loops, mutated, op, planned, data, cancelled, defaultNodeCount, mutations,
                   attempts, errorLog, last, lastErr, fetches, finalReads,
                   lastRead>>

\* select: the context is done before the timer fires, after having
\* slept part of the delay
ContextDone ==
    /\ pc = "wait"
    /\ cancelled
    /\ \E slept \in {0, RetryDelay - 1} : waited' = waited + slept
    /\ err' = ContextErr
    /\ outcome' = OutcomeOf("context")
    /\ AfterLoop(ContextErr)
    /\ UNCHANGED <<exchange, loops, mutated, op, planned, data, cancelled, defaultNodeCount, mutations,
                   attempts, n, errorLog, last, lastErr, fetches, waits,
                   finalReads, lastRead>>

\* variant: the error of the refreshing read is dropped
FinalRead_IgnoresError ==
    /\ pc = "read"
    /\ finalReads' = finalReads + 1
    /\ \E resp \in Answers(ShowResponses(FinalReader(op)),
                           TransportError("context canceled")) :
         /\ data' = DataAfterRead(FinalReader(op), resp, data)
         /\ lastRead' = resp
         /\ stateSet' = TRUE
         /\ UNCHANGED diag
    /\ pc' = "done"
    /\ UNCHANGED <<exchange, loops, mutated, op, planned, cancelled, defaultNodeCount,
                   mutations, loopVars, stateRemoved>>

\* the read that refreshes the model after the loop of an update
FinalRead ==
    /\ pc = "read"
    /\ finalReads' = finalReads + 1
    /\ \E resp \in Answers(ShowResponses(FinalReader(op)),
                           TransportError("context canceled")) :
         LET e == IF FinalReader(op) = "cluster" THEN readCluster(resp)
                  ELSE readNodePool(resp)
         IN  /\ data' = DataAfterRead(FinalReader(op), resp, data)
             /\ lastRead' = resp
             /\ IF e # Nil
                THEN /\ diag' = [summary |-> ErrorSummary(op),
                                 detail |-> RetryError(<<e>>)]
                     /\ UNCHANGED stateSet
                ELSE /\ stateSet' = TRUE
                     /\ UNCHANGED diag
    /\ pc' = "done"
    /\ UNCHANGED <<exchange, loops, mutated, op, planned, cancelled, defaultNodeCount, mutations,
                   loopVars, stateRemoved>>

\* the kind of object a Read operation fetches
ReadKind(o) == IF o = "ClusterRead" THEN "cluster" ELSE "nodepool"

\* Read: one fetch through readCluster or readNodePool; an error becomes a
\* diagnostic, otherwise the refreshed model is written to the state
Read ==
    /\ pc = "refresh"
    /\ finalReads' = finalReads + 1
    /\ \E resp \in Answers(ShowResponses(ReadKind(op)),
                           TransportError("context canceled")) :
         LET e == IF ReadKind(op) = "cluster" THEN readCluster(resp)
                  ELSE readNodePool(resp)
         IN  /\ data' = DataAfterRead(ReadKind(op), resp, data)
             /\ lastRead' = resp
             /\ IF e # Nil
                THEN /\ diag' = [summary |-> ErrorSummary(op),
                                 detail |-> RetryError(<<e>>)]
                     /\ UNCHANGED stateSet
                ELSE /\ stateSet' = TRUE
                     /\ UNCHANGED diag
    /\ pc' = "done"
    /\ UNCHANGED <<exchange, loops, mutated, op, planned, cancelled, defaultNodeCount, mutations,
                   loopVars, stateRemoved>>

\* the operation's context is cancelled (timeout, interrupt)
Cancel ==
    /\ pc # "done"
    /\ ~cancelled
    /\ cancelled' = TRUE
    /\ UNCHANGED <<exchange, loops, mutated, op, planned, data, pc, defaultNodeCount, mutations,
                   loopVars, finalReads, diag, stateSet, lastRead,
                   stateRemoved>>

Next ==
    \/ ListDefaultNodePool
    \/ Mutate
    \/ RetryDo
    \/ Attempt
    \/ TimerFires
    \/ ContextDone
    \/ FinalRead
    \/ Read
    \/ Cancel

Spec == Init /\ [][Next]_vars

\* The steps of retry.Do are taken: the Go runtime schedules the handler's
\* goroutine, every request of the client returns, the timer of the delay
\* fires and a closed ctx.Done() is received.
FairSpec ==
    /\ Spec
    /\ WF_vars(RetryDo)
    /\ WF_vars(Attempt)
    /\ WF_vars(TimerFires)
    /\ WF_vars(ContextDone)

(* ---------------------------------------------------------------------- *)
(* Operations running concurrently                                        *)
(*                                                                        *)
(* Terraform calls the handlers of different resource instances from      *)
(* separate goroutines.  Each call has its own ctx, data and attempts     *)
(* (locals of the handler) and its own n (a local of retry.Do); the       *)
(* handlers share r.client, which they only read.                         *)
(* ---------------------------------------------------------------------- *)
Instances == {"first", "second"}

\* the operation each instance runs: two clusters, or a cluster and a
\* node pool, being created
ConcurrentOps(i) ==
    IF i = "first" THEN {"ClusterCreate"} ELSE {"ClusterCreate", "NodePoolCreate"}

\* planned node counts on both sides of the threshold (budgets 60 and 120)
ConcurrentNodeCounts == {NodeThreshold, NodeThreshold + 1}

\* what the remote system and the caller do to one instance: the object is
\* pending for the first `pending` fetches and then shows `final` ("PENDING":
\* it never leaves the pending status); the context of the operation is
\* cancelled during the wait that follows fetch `cancelAt` (0: never)
Scripts ==
    [pending : 0..MaxPending, final : {"READY", "ERROR"},
     cancelAt : 0..MaxPending]
        \cup [pending : {0}, final : {"PENDING"}, cancelAt : 0..MaxPending]

\* the status the loop of operation o retries
PendingStatusOf(o) ==
    CASE o = "ClusterCreate" -> "IN_PROGRESS"
      [] o = "ClusterUpdate" -> "RESIZING"
      [] o = "ClusterDelete" -> "DELETING"
      [] o = "NodePoolCreate" -> "CREATING"
      [] o = "NodePoolUpdate" -> "RESIZING"
      [] o = "NodePoolDelete" -> "DELETING"

\* the response to fetch number j of an instance
ScriptResponse(o, script, j) ==
    LET count == IF PolledKind(o) = "cluster" THEN 0 ELSE NodeThreshold
    IN  IF script.final = "PENDING" \/ j <= script.pending
        THEN Object(FALSE, PendingStatusOf(o), count)
        ELSE Object(FALSE, script.final, count)

ConcurrentInit ==
    /\ HandlerInit
    /\ op = "ClusterCreate"
    /\ planned = 0
    /\ loops \in [Instances -> [op : Ops, nodeCount : ConcurrentNodeCounts,
                                script : Scripts, attempts : {0}, n : {0},
                                pc : {"retry"}, fetches : {0}, waits : {0},
                                outcome : {"none"}]]
    /\ \A i \in Instances : loops[i].op \in ConcurrentOps(i)
    /\ exchange = << >>

\* entry of retry.Do of instance i, with the budget of its own plan
ConcurrentRetryDo(i) ==
    /\ loops[i].pc = "retry"
    /\ loops' = [loops EXCEPT ![i].attempts =
                                  AttemptsFor(loops[i].op, loops[i].nodeCount),
                              ![i].pc = "call"]
    /\ UNCHANGED <<handlerVars, exchange>>

\* one pass of the loop body of instance i
ConcurrentAttempt(i) ==
    /\ loops[i].pc = "call"
    /\ LET l == loops[i]
           resp == ScriptResponse(l.op, l.script, l.fetches + 1)
           e == RetryableFunc(l.op, resp)
           d == RetryDecision(l.op, e, l.n, l.attempts)
       IN  loops' = [loops EXCEPT ![i].fetches = l.fetches + 1,
                                  ![i].pc = IF d = "select" THEN "wait"
                                            ELSE "done",
                                  ![i].outcome = IF d = "select" THEN "none"
                                                 ELSE OutcomeOf(d)]
    /\ UNCHANGED <<handlerVars, exchange>>

\* variant: the attempt counter is a package-level variable
ConcurrentTimerFires_SharedCounter(i) ==
    /\ loops[i].pc = "wait"
    /\ loops[i].script.cancelAt # loops[i].fetches
    /\ LET l == loops[i]
           c == [j \in Instances |-> loops[j].n + 1]
       IN  loops' = [j \in Instances |->
                       IF j # i THEN [loops[j] EXCEPT !.n = c[j]]
                       ELSE [l EXCEPT !.n = c[i],
                                      !.waits = l.waits + 1,
                                      !.pc = IF LoopContinues(c[i], l.attempts)
                                             THEN "call" ELSE "done",
                                      !.outcome =
                                          IF LoopContinues(c[i], l.attempts)
                                          THEN "none"
                                          ELSE OutcomeOf("break_last")]]
    /\ UNCHANGED <<handlerVars, exchange>>

\* select of instance i: the timer fires first
ConcurrentTimerFires(i) ==
    /\ loops[i].pc = "wait"
    /\ loops[i].script.cancelAt # loops[i].fetches
    /\ LET l == loops[i]
       IN  loops' = [loops EXCEPT ![i].n = l.n + 1,
                                  ![i].waits = l.waits + 1,
                                  ![i].pc = IF LoopContinues(l.n + 1, l.attempts)
                                            THEN "call" ELSE "done",
                                  ![i].outcome =
                                      IF LoopContinues(l.n + 1, l.attempts)
                                      THEN "none"
                                      ELSE OutcomeOf("break_last")]
    /\ UNCHANGED <<handlerVars, exchange>>

\* select of instance i: its context is done first
ConcurrentContextDone(i) ==
    /\ loops[i].pc = "wait"
    /\ loops[i].script.cancelAt = loops[i].fetches
    /\ loops' = [loops EXCEPT ![i].pc = "done",
                              ![i].outcome = OutcomeOf("context")]
    /\ UNCHANGED <<handlerVars, exchange>>

ConcurrentNext ==
    \/ \E i \in Instances : ConcurrentRetryDo(i)
    \/ \E i \in Instances : ConcurrentAttempt(i)
    \/ \E i \in Instances : ConcurrentTimerFires(i)
    \/ \E i \in Instances : ConcurrentContextDone(i)

ConcurrentSpec == ConcurrentInit /\ [][ConcurrentNext]_vars

(* ---------------------------------------------------------------------- *)
(* The request editors of the API client                                  *)
(*                                                                        *)
(* Configure hands two request editors to the client, authClientOption    *)
(* and then debugOption; the client runs them in that order on every      *)
(* request before the transport sends it.  A text is a sequence of        *)
(* one-character strings.                                                 *)
(* ---------------------------------------------------------------------- *)
TokenChars == {"b", "A"}

\* the bearer tokens a configuration may hold, the empty one included
Tokens == UNION {[1..k -> TokenChars] : k \in 0..MaxTokenLen}

\* request bodies: short ones and ones around the limit of the logged text
BodyLengths == {1, 2} \cup (LogBodyLimit..(LogBodyLimit + MaxExtra))

Bodies == {[i \in 1..k |-> IF i = k THEN "}" ELSE "x"] : k \in BodyLengths}

\* a body reader: the bytes it was made from and how many were read
Reader(bytes) == [present |-> TRUE, bytes |-> bytes, pos |-> 0]

NoBody == [present |-> FALSE, bytes |-> << >>, pos |-> 0]

\* the bytes a reader still yields
Remaining(body) == SubSeq(body.bytes, body.pos + 1, Len(body.bytes))

\* the requests the generated client builds: a GET without a body, with
\* or without a query, and a POST with a JSON body
Requests ==
    {[method |-> "GET", path |-> "/clusters", query |-> q, contentLength |-> 0,
      userAgent |-> "", contentType |-> "", authorization |-> << >>,
      body |-> NoBody] : q \in {"", "only_default=true"}}
        \cup
    {[method |-> "POST", path |-> "/clusters", query |-> "",
      contentLength |-> Len(b), userAgent |-> "",
      contentType |-> "application/json", authorization |-> << >>,
      body |-> Reader(b)] : b \in Bodies}

BearerPrefix == <<"B", "e", "a", "r", "e", "r", " ">>

\* strings.ToLower on the characters that occur
ToLowerChar(c) ==
    CASE c = "B" -> "b"
      [] c = "A" -> "a"
      [] OTHER -> c

ToLower(text) == [i \in 1..Len(text) |-> ToLowerChar(text[i])]

HasPrefix(text, prefix) ==
    /\ Len(text) >= Len(prefix)
    /\ SubSeq(text, 1, Len(prefix)) = prefix

\* req.BasicAuth(): the header carries the Basic scheme
BasicAuth(req) ==
    HasPrefix(ToLower(req.authorization), <<"b", "a", "s", "i", "c", " ">>)

\* authClientOption: sets the Authorization header
authClientOption(req, token) ==
    [req EXCEPT !.authorization = BearerPrefix \o token]

Line(key, value, num, text) ==
    [key |-> key, value |-> value, num |-> num, text |-> text]

Truncated == <<".", ".", ".", " ", "[", "t", "r", "u", "n", "c", "a", "t",
               "e", "d", "]">>

\* the text logged for a body that was read
BodyText(read) ==
    IF Len(read) > LogBodyLimit
    THEN SubSeq(read, 1, LogBodyLimit) \o Truncated
    ELSE read

\* does debugOption read the body?
ReadsBody(req) == req.body.present /\ req.contentLength # 0

\* variant: the Authorization header is logged with its value
AuthLines_WithValue(req) ==
    IF req.authorization = << >> THEN << >>
    ELSE <<Line("Authorization", "", 0, req.authorization)>>

\* the lines about the Authorization header
AuthLines(req) ==
    (IF BasicAuth(req)
     THEN <<Line("Has Auth", "true", 0, << >>)>> ELSE << >>)
    \o (IF req.authorization = << >> THEN << >>
        ELSE IF HasPrefix(ToLower(req.authorization),
                          <<"b", "e", "a", "r", "e", "r">>)
        THEN <<Line("Auth Type", "bearer", 0, << >>)>>
        ELSE IF HasPrefix(ToLower(req.authorization),
                          <<"b", "a", "s", "i", "c">>)
        THEN <<Line("Auth Type", "basic", 0, << >>)>>
        ELSE << >>)

\* the message debugOption hands to tflog.Debug
debugMessage(req) ==
    <<Line("Method", req.method, 0, << >>),
      Line("URL", req.path, 0, << >>),
      Line("Host", "", 0, << >>),
      Line("Path", req.path, 0, << >>),
      Line("Remote Addr", "", 0, << >>)>>
    \o (IF req.query # ""
        THEN <<Line("Query", req.query, 0, << >>)>> ELSE << >>)
    \o (IF req.contentLength > 0
        THEN <<Line("Content Length", "", req.contentLength, << >>)>>
        ELSE << >>)
    \o (IF req.userAgent # ""
        THEN <<Line("User-Agent", req.userAgent, 0, << >>)>> ELSE << >>)
    \o (IF req.contentType # ""
        THEN <<Line("Content-Type", req.contentType, 0, << >>)>> ELSE << >>)
    \o AuthLines(req)
    \o (IF ReadsBody(req) /\ Len(Remaining(req.body)) > 0
        THEN <<Line("Body", "", 0, BodyText(Remaining(req.body)))>>
        ELSE << >>)

\* variant: the body is read and not put back
debugBody_NoReset(req) ==
    IF ReadsBody(req)
    THEN [req.body EXCEPT !.pos = Len(req.body.bytes)]
    ELSE req.body

\* the body of the request after debugOption: io.ReadAll consumes the
\* reader, and what was read is put back in a new reader when it is not
\* empty
debugBody(req) ==
    IF ReadsBody(req)
    THEN IF Len(Remaining(req.body)) > 0
         THEN Reader(Remaining(req.body))
         ELSE [req.body EXCEPT !.pos = Len(req.body.bytes)]
    ELSE req.body

\* debugOption: the request it leaves, the message it logs and the error
\* it returns
debugOption(req) ==
    [req |-> [req EXCEPT !.body = debugBody(req)],
     msg |-> debugMessage(req),
     err |-> Nil]

\* two provider configurations that differ in nothing but the token
Configurations == {"one", "other"}

NotLogged == <<Line("", "", 0, << >>)>>

EditorsInit ==
    /\ HandlerInit
    /\ op = "ClusterCreate"
    /\ planned = 0
    /\ loops = << >>
    /\ \E r \in Requests :
         exchange \in [Configurations ->
                          [token : Tokens, built : {r}, req : {r},
                           stage : {"built"}, logged : {NotLogged},
                           err : {Nil}, sent : {<< >>}]]

\* the first editor of the client runs
Authorize(c) ==
    /\ exchange[c].stage = "built"
    /\ exchange' = [exchange EXCEPT
                      ![c].req = authClientOption(exchange[c].req,
                                                  exchange[c].token),
                      ![c].stage = "authorized"]
    /\ UNCHANGED <<handlerVars, loops>>

\* the second editor of the client runs
Debug(c) ==
    /\ exchange[c].stage = "authorized"
    /\ LET result == debugOption(exchange[c].req)
       IN  exchange' = [exchange EXCEPT ![c].req = result.req,
                                        ![c].logged = result.msg,
                                        ![c].err = result.err,
                                        ![c].stage = "logged"]
    /\ UNCHANGED <<handlerVars, loops>>

\* the transport reads the body and sends the request
Send(c) ==
    /\ exchange[c].stage = "logged"
    /\ exchange[c].err = Nil
    /\ exchange' = [exchange EXCEPT
                      ![c].sent = Remaining(exchange[c].req.body),
                      ![c].req.body.pos = Len(exchange[c].req.body.bytes),
                      ![c].stage = "sent"]
    /\ UNCHANGED <<handlerVars, loops>>

EditorsNext ==
    \/ \E c \in Configurations : Authorize(c)
    \/ \E c \in Configurations : Debug(c)
    \/ \E c \in Configurations : Send(c)

EditorsSpec == EditorsInit /\ [][EditorsNext]_vars

(* ---------------------------------------------------------------------- *)
(* Vocabulary of the properties                                           *)
(* ---------------------------------------------------------------------- *)
\* the response carries an object (HTTP 200 with a body)
IsObject(resp) == resp.err = Nil /\ resp.code = 200 /\ resp.body

\* the handler is inside retry.Do
InLoop == pc \in {"retry", "call", "wait"}

\* the status an operation waits out
OwnPendingStatus ==
    CASE op = "ClusterCreate" -> "IN_PROGRESS"
      [] op = "ClusterUpdate" -> "RESIZING"
      [] op = "ClusterDelete" -> "DELETING"
      [] op = "NodePoolCreate" -> "CREATING"
      [] op = "NodePoolUpdate" -> "RESIZING"
      [] op = "NodePoolDelete" -> "DELETING"

\* the latest observation is the operation's pending status on an object
\* that is present (and, in a delete loop, not marked deleted)
ObservedPending(resp) ==
    /\ IsObject(resp)
    /\ resp.status = OwnPendingStatus
    /\ (op \in DeleteOps => ~resp.deleted)

Vocabulary(kind) ==
    IF kind = "cluster"
    THEN {"IN_PROGRESS", "DELETING", "ERROR", "READY"}
    ELSE {"CREATING", "RESIZING", "DELETING", "ERROR", "READY"}

\* every error retry.Do collected so far is the operation's pending error
OnlyPendingLogged ==
    \A i \in 1..Len(errorLog) : RetryIf(op, errorLog[i])

(* ---------------------------------------------------------------------- *)
(* Properties                                                             *)
(* ---------------------------------------------------------------------- *)

\* C1: calculateRetryAttempts returns 60 for a node count in {0,1,2,3} and
\* 120 for a node count above 3, and is strictly positive for every input,
\* negative node counts included (observed as the budget a create or update
\* loop is started with).
C1_RetryAttempts ==
    (op \notin DeleteOps /\ (InLoop \/ outcome # "none")) =>
        /\ (planned \in {0, 1, 2, 3} => attempts = 60)
        /\ (planned > 3 => attempts = 120)
        /\ attempts > 0

C1_Witness ==
    /\ op = "NodePoolCreate"
    /\ pc = "call"
    /\ planned = 4
    /\ attempts = 120

C3_PendingThenReady ==
    /\ (IsObject(last) /\ last.status = "READY") =>
          /\ outcome = "Converged"
          /\ ~InLoop
          /\ OnlyPendingLogged
          /\ fetches = Len(errorLog) + 1
          /\ waits = Len(errorLog)
          /\ Len(errorLog) < attempts
    /\ (~cancelled /\ ObservedPending(last) /\ fetches < attempts) =>
          /\ outcome = "none"
          /\ pc \in {"wait", "call"}

C3_Witness ==
    /\ outcome = "Converged"
    /\ last.status = "READY"
    /\ attempts = 120
    /\ fetches = 120
    /\ waits = 119

\* C4: when every fetch reports the pending status and no cancellation
\* fires, a loop with budget b ends TimedOut after exactly b fetches.
C4_TimedOutAfterBudget ==
    /\ outcome = "TimedOut" =>
          /\ fetches = attempts
          /\ Len(errorLog) = attempts
          /\ OnlyPendingLogged
          /\ ~InLoop
    /\ (~cancelled /\ ObservedPending(last) /\ fetches = attempts) =>
          outcome = "TimedOut"
    /\ fetches <= attempts

C4_Witness ==
    /\ outcome = "TimedOut"
    /\ op = "ClusterCreate"
    /\ attempts = 60
    /\ fetches = 60
    /\ ~cancelled

\* C5: at any poll of any loop, an object that is present, not marked
\* deleted and whose status is ERROR or outside the vocabulary of its kind
\* ends the loop ConvergenceFailed at that poll (no further fetch or wait,
\* whatever budget remains); it is never a success.
C5_ErrorOrUnknownFails ==
    (/\ IsObject(last)
     /\ ~last.deleted
     /\ (last.status = "ERROR" \/ last.status \notin Vocabulary(PolledKind(op)))) =>
        /\ outcome = "ConvergenceFailed"
        /\ pc = "done"
        /\ waits = fetches - 1
        /\ diag.summary = ErrorSummary(op)
        /\ ~stateSet

C5_Witness ==
    /\ outcome = "ConvergenceFailed"
    /\ IsObject(last)
    /\ ~last.deleted
    /\ last.status = "BOGUS"
    /\ fetches = 2
    /\ attempts = 120

\* C6: in the cluster and node-pool delete loops, a first fetch answered
\* with HTTP 404 ends the loop Converged at once: one fetch, no wait, and no
\* status is inspected (the retryable function returns nil, no error is
\* logged or reported).
C6_DeleteNotFound ==
    (op \in DeleteOps /\ fetches = 1 /\ last = HttpResponse(404)) =>
        /\ outcome = "Converged"
        /\ pc = "done"
        /\ waits = 0
        /\ waited = 0
        /\ lastErr = Nil
        /\ errorLog = << >>
        /\ diag = NoDiag

C6_Witness ==
    /\ op = "ClusterDelete"
    /\ fetches = 1
    /\ last = HttpResponse(404)
    /\ outcome = "Converged"

\* C7: once the context is cancelled during an inter-attempt wait, the
\* loop's next step ends it Cancelled, with no further fetch and less than
\* the 10 second delay slept in that wait.
C7_CancelDuringWait ==
    [][(pc = "wait" /\ cancelled) =>
          /\ outcome' = "Cancelled"
          /\ pc' = "done"
          /\ fetches' = fetches
          /\ waits' = waits
          /\ waited' - waited < 10]_vars

C7_Witness ==
    /\ outcome = "Cancelled"
    /\ fetches = 1
    /\ ObservedPending(last)
    /\ waits = 0
    /\ waited < 10

\* C8: a fetch that fails (transport error, a status other than 200 except
\* the 404 of a delete loop, or a 200 without body) ends the loop
\* ConvergenceFailed at that poll, in every loop and at every poll.
C8_FetchErrorFails ==
    (/\ fetches > 0
     /\ \/ last.err # Nil
        \/ (last.code # 200 /\ ~(op \in DeleteOps /\ last.code = 404))
        \/ (last.code = 200 /\ ~last.body)) =>
        /\ outcome = "ConvergenceFailed"
        /\ pc = "done"
        /\ waits = fetches - 1

C8_Witness ==
    /\ op = "NodePoolCreate"
    /\ last = HttpResponse(404)
    /\ fetches = 3
    /\ outcome = "ConvergenceFailed"

\* C9: every inter-attempt wait and every fetch after the first directly
\* follows an observation of the operation's pending status; after any
\* other observation no fetch is issued.
C9_OnlyPendingRetried ==
    [][/\ (fetches' # fetches /\ fetches > 0) => ObservedPending(last)
       /\ (pc' = "wait" /\ pc # "wait") => ObservedPending(last')
       /\ (waits' # waits) => ObservedPending(last)]_vars

C9_Witness ==
    /\ pc = "call"
    /\ fetches = 2
    /\ ObservedPending(last)

\* the loops that poll a node pool
NodePoolLoops == {"ClusterUpdate", "NodePoolCreate", "NodePoolUpdate",
                  "NodePoolDelete"}

\* the latest poll of a node-pool loop returned an object that is present
\* (and, in the delete loop, not marked deleted)
NodePoolObserved ==
    /\ op \in NodePoolLoops
    /\ IsObject(last)
    /\ (op \in DeleteOps => ~last.deleted)

\* C10 as stated: in every node-pool wait CREATING and RESIZING are both
\* Pending (the loop keeps polling rather than failing), READY is Ready and
\* ERROR is Failed.
C10_Original ==
    NodePoolObserved =>
        /\ (last.status \in {"CREATING", "RESIZING"} =>
                outcome # "ConvergenceFailed")
        /\ (last.status = "READY" => outcome = "Converged")
        /\ (last.status = "ERROR" => outcome = "ConvergenceFailed")

\* C10 amended: in every node-pool wait READY is Ready and ERROR is Failed;
\* of CREATING and RESIZING only the operation's own pending status keeps
\* the loop polling (CREATING in the node-pool create wait, RESIZING in the
\* node-pool update wait and in the cluster-update wait on the default node
\* pool, neither in the delete wait); the other one ends the loop
\* ConvergenceFailed at that poll.
C10_NodePoolClasses ==
    NodePoolObserved =>
        /\ (last.status = "READY" => outcome = "Converged")
        /\ (last.status = "ERROR" => outcome = "ConvergenceFailed")
        /\ (last.status \in {"CREATING", "RESIZING"} =>
                IF last.status = OwnPendingStatus
                THEN outcome \in {"none", "TimedOut", "Cancelled"}
                ELSE outcome = "ConvergenceFailed" /\ pc = "done")

C10_Witness ==
    /\ op = "NodePoolCreate"
    /\ IsObject(last)
    /\ last.status = "RESIZING"
    /\ fetches = 2
    /\ outcome = "ConvergenceFailed"

(* ---------------------------------------------------------------------- *)
(* Classification of an observation                                       *)
(* ---------------------------------------------------------------------- *)
\* the decision the loop of operation o takes for response resp
DecisionOf(o, resp) ==
    IF RetryableFunc(o, resp) = Nil THEN "succeed"
    ELSE IF RetryIf(o, RetryableFunc(o, resp)) THEN "keep polling"
    ELSE "fail"

\* the decision the running loop took for its latest observation
ObservedDecision ==
    CASE outcome = "Converged" -> "succeed"
      [] outcome = "ConvergenceFailed" -> "fail"
      [] OTHER -> "keep polling"

\* the table the six loops implement, by operation, status string and (in
\* the delete loops) the deleted marker
DecisionTable(o, status, deleted) ==
    IF o \in DeleteOps /\ deleted THEN "succeed"
    ELSE IF status = "READY" THEN "succeed"
    ELSE IF o = "ClusterCreate" /\ status = "IN_PROGRESS" THEN "keep polling"
    ELSE IF o = "NodePoolCreate" /\ status = "CREATING" THEN "keep polling"
    ELSE IF o \in UpdateOps /\ status = "RESIZING" THEN "keep polling"
    ELSE IF o \in DeleteOps /\ status = "DELETING" THEN "keep polling"
    ELSE "fail"

\* C11 as stated: the decision for an observation is a function of
\* (resource kind, status string) alone: it is the decision every operation
\* polling that kind takes for that status string.
C11_Original ==
    (fetches > 0 /\ IsObject(last)) =>
        \A o \in Ops :
            PolledKind(o) = PolledKind(op) =>
                DecisionOf(o, Object(FALSE, last.status, last.nodeCount))
                    = ObservedDecision

\* C11 amended: the decision for an observation is a deterministic function
\* of (operation, status string, and in the delete loops the deleted marker)
\* alone: the same triple yields the same class at every poll, whatever the
\* poll index, the budget, the node counts or the cancellation state.
C11_DecisionByOperation ==
    (fetches > 0 /\ IsObject(last)) =>
        ObservedDecision = DecisionTable(op, last.status, last.deleted)

C11_Witness ==
    /\ op = "NodePoolDelete"
    /\ IsObject(last)
    /\ ~last.deleted
    /\ last.status = "RESIZING"
    /\ fetches = 3
    /\ outcome = "ConvergenceFailed"

\* C12: in the delete loops, at any poll, an object whose deleted marker is
\* set ends the loop Converged at that poll whatever its status string,
\* and the delete reports no error.
C12_DeletedMarker ==
    (op \in DeleteOps /\ IsObject(last) /\ last.deleted) =>
        /\ outcome = "Converged"
        /\ pc = "done"
        /\ lastErr = Nil
        /\ waits = fetches - 1
        /\ diag = NoDiag

C12_Witness ==
    /\ op = "ClusterDelete"
    /\ IsObject(last)
    /\ last.deleted
    /\ last.status = "ERROR"
    /\ fetches = 2
    /\ outcome = "Converged"

\* C13: the cluster delete reports success only after a fetch answered with
\* 404 or with an object marked deleted, never after a fetch that returned
\* the cluster present and not marked deleted.
C13_DeleteWaitsUntilGone ==
    (op = "ClusterDelete" /\ pc = "done" /\ outcome = "Converged"
        /\ diag = NoDiag) =>
        \/ last = HttpResponse(404)
        \/ (IsObject(last) /\ last.deleted)

\* C14: the cluster and node-pool delete loops run with a budget of
\* exactly 60 attempts, whatever node count the state holds or the remote
\* object reports: they time out after 60 fetches.
C14_DeleteBudget ==
    (op \in DeleteOps /\ (InLoop \/ outcome # "none")) =>
        /\ attempts = 60
        /\ fetches <= 60
        /\ (outcome = "TimedOut" => fetches = 60)

C14_Witness ==
    /\ op = "NodePoolDelete"
    /\ planned = 4
    /\ IsObject(last)
    /\ last.nodeCount = 4
    /\ outcome = "TimedOut"
    /\ fetches = 60

\* C15: the cluster create, cluster update, node-pool create and node-pool
\* update waits run with the budget of the planned node count, 120 above 3
\* and 60 otherwise, whatever node count the remote object reports (in the
\* polled object, or in the default node pool listed by cluster update).
C15_BudgetFromPlan ==
    (op \in Ops \ DeleteOps /\ (InLoop \/ outcome # "none")) =>
        /\ attempts = (IF planned > 3 THEN 120 ELSE 60)
        /\ (outcome = "TimedOut" =>
                fetches = (IF planned > 3 THEN 120 ELSE 60))

C15_Witness ==
    /\ op = "NodePoolUpdate"
    /\ planned = 0
    /\ data.NodeCount = 4
    /\ outcome = "TimedOut"
    /\ fetches = 60

\* C16: the budget is fixed when the loop starts and never changes while
\* the loop runs or after it, although the fetches of the node-pool create
\* and update loops overwrite the model's node count.
C16_BudgetFixed ==
    [][attempts # 0 => attempts' = attempts]_vars

C16_Witness ==
    /\ op = "NodePoolCreate"
    /\ pc = "wait"
    /\ planned = 0
    /\ data.NodeCount = 4
    /\ attempts = 60
    /\ fetches = 2

ReportedCondition ==
    IF diag.detail.type = "context" THEN "Cancelled"
    ELSE IF /\ diag.detail.type = "retry.Error"
            /\ Len(diag.detail.log) > 0
            /\ RetryIf(op, diag.detail.log[Len(diag.detail.log)])
    THEN "TimedOut"
    ELSE "ConvergenceFailed"

\* C18: the diagnostics reported for TimedOut, for a terminal failure and
\* for Cancelled differ from one another, so that the loop's outcome can be
\* read off the reported diagnostic.
C18_OutcomesDistinct ==
    outcome \in {"TimedOut", "ConvergenceFailed", "Cancelled"} =>
        /\ diag.summary = ErrorSummary(op)
        /\ diag.detail # NilErr
        /\ ReportedCondition = outcome

C18_Witness ==
    /\ op = "ClusterCreate"
    /\ outcome = "TimedOut"
    /\ diag.detail.type = "retry.Error"
    /\ Len(diag.detail.log) = 60

C20_ReadNotFound ==
    (op \in ReadOps /\ pc = "done" /\ lastRead = HttpResponse(404)) =>
        /\ diag = NoDiag
        /\ stateRemoved

\* C21: DELETING is classified by mode: a delete loop that observes DELETING
\* (on an object not marked deleted) keeps polling, while a create or update
\* loop, of a cluster or of a node pool, that observes DELETING ends
\* ConvergenceFailed at that fetch, with no wait after it and nothing
\* written to the state.
C21_DeletingByMode ==
    (fetches > 0 /\ IsObject(last) /\ last.status = "DELETING") =>
        IF op \in DeleteOps
        THEN ~last.deleted => outcome \in {"none", "TimedOut", "Cancelled"}
        ELSE /\ outcome = "ConvergenceFailed"
             /\ pc = "done"
             /\ waits = fetches - 1
             /\ ~RetryIf(op, lastErr)
             /\ ~stateSet

C21_Witness ==
    /\ op = "ClusterUpdate"
    /\ fetches = 2
    /\ IsObject(last)
    /\ last.status = "DELETING"
    /\ outcome = "ConvergenceFailed"

\* C22 as stated: for a cluster, IN_PROGRESS is Pending, and DELETING is
\* Pending during create/update waits: a cluster create wait that observes
\* IN_PROGRESS or DELETING keeps polling, bounded by the budget, instead
\* of failing.
C22_Original ==
    (op = "ClusterCreate" /\ fetches > 0 /\ IsObject(last)
       /\ last.status \in {"IN_PROGRESS", "DELETING"}) =>
        outcome \in {"none", "TimedOut", "Cancelled"}

\* C22 amended: in the cluster create wait IN_PROGRESS is Pending (the loop
\* keeps polling, bounded by the budget), and DELETING is Failed: a cluster
\* create wait that observes DELETING ends ConvergenceFailed at that fetch.
C22_ClusterCreateClasses ==
    (op = "ClusterCreate" /\ fetches > 0 /\ IsObject(last)) =>
        /\ last.status = "IN_PROGRESS" =>
               /\ outcome \in {"none", "TimedOut", "Cancelled"}
               /\ outcome = "TimedOut" => fetches = attempts
        /\ last.status = "DELETING" =>
               /\ outcome = "ConvergenceFailed"
               /\ lastErr = "cluster is in deleting state"
               /\ pc = "done"

C22_Witness ==
    /\ op = "ClusterCreate"
    /\ fetches = 3
    /\ IsObject(last)
    /\ last.status = "DELETING"
    /\ outcome = "ConvergenceFailed"
    /\ waits = 2

\* C23: in the create and update loops neither a 404 nor the deleted marker
\* is a success signal: a 404 ends the loop ConvergenceFailed at that fetch
\* with nothing written to the state, and an object carrying the deleted
\* marker is decided by its status as if the marker were absent, so the
\* loop ends Converged on it only when its status is READY.
C23_NoDeleteSignals ==
    (op \in Ops \ DeleteOps /\ fetches > 0) =>
        /\ last = HttpResponse(404) =>
               /\ outcome = "ConvergenceFailed"
               /\ pc = "done"
               /\ waits = fetches - 1
               /\ ~stateSet
        /\ (IsObject(last) /\ last.deleted) =>
               /\ ObservedDecision = DecisionTable(op, last.status, FALSE)
               /\ outcome = "Converged" => last.status = "READY"

C23_Witness ==
    /\ op = "NodePoolUpdate"
    /\ fetches = 2
    /\ last = HttpResponse(404)
    /\ outcome = "ConvergenceFailed"

\* C24 as stated: the cancellation check precedes the budget check: when
\* the last budgeted observation is Pending and the cancellation has fired
\* by then, the loop ends Cancelled, not TimedOut.
C24_Original ==
    (fetches = attempts /\ fetches > 0 /\ ObservedPending(last)
       /\ cancelled /\ outcome # "none") =>
        outcome = "Cancelled"

\* C24 amended: the budget check precedes the cancellation check: when the
\* last budgeted observation is Pending the loop ends TimedOut at that
\* fetch, with no further wait, also when the cancellation has fired by
\* then.
C24_BudgetBeforeCancel ==
    (fetches = attempts /\ fetches > 0 /\ ObservedPending(last)) =>
        /\ outcome = "TimedOut"
        /\ pc = "done"
        /\ waits = attempts - 1

C24_Witness ==
    /\ outcome = "TimedOut"
    /\ cancelled
    /\ fetches = attempts
    /\ ObservedPending(last)

\* C25 as stated: the cancellation signal is checked at the top of each
\* iteration: when it has fired by the time an iteration begins, the first
\* one included, no fetch is issued in that iteration and the loop ends
\* Cancelled.
C25_Original ==
    [][(pc \in {"retry", "call"} /\ cancelled) =>
           /\ fetches' = fetches
           /\ outcome' = "Cancelled"]_vars

\* C25 amended: the cancellation signal is checked once when the loop is
\* entered and during each wait, not at the top of later iterations: when
\* it has fired before the loop is entered or during a wait, no further
\* fetch is issued and the loop ends Cancelled; when it fires after a wait
\* has ended, the next fetch is attempted with the cancelled context,
\* fails, and the loop ends ConvergenceFailed.
C25_CancelCheckPoints ==
    [][/\ (pc \in {"retry", "wait"} /\ cancelled) =>
              /\ fetches' = fetches
              /\ outcome' = "Cancelled"
              /\ err' = ContextErr
       /\ (pc = "call" /\ cancelled) =>
              /\ fetches' = fetches + 1
              /\ last' = TransportError("context canceled")
              /\ outcome' = "ConvergenceFailed"]_vars

C25_Witness ==
    /\ outcome = "Cancelled"
    /\ fetches = 0
    /\ mutations = 1
    /\ attempts > 0

\* the four ways a loop ends
LoopOutcomes == {"Converged", "ConvergenceFailed", "TimedOut", "Cancelled"}

\* C26: provided every fetch returns, every polling loop terminates: a loop
\* with budget b makes at most b fetches and at most b - 1 waits, a loop
\* that was entered eventually ends, it ends in one of Converged,
\* ConvergenceFailed, TimedOut and Cancelled, and the outcome it ended
\* with does not change afterwards, whatever the fetch results and
\* whenever the cancellation fires.
C26_Terminates ==
    /\ [](op \in Ops =>
            /\ (InLoop \/ outcome # "none") =>
                   /\ attempts > 0
                   /\ fetches <= attempts
                   /\ waits <= attempts - 1
                   /\ waits <= fetches
            /\ outcome \in LoopOutcomes \cup {"none"}
            /\ InLoop => outcome = "none"
            /\ outcome # "none" => fetches <= waits + 1)
    /\ [][outcome # "none" => outcome' = outcome]_vars
    /\ (InLoop ~> (~InLoop /\ outcome \in LoopOutcomes))

C26_Witness ==
    /\ outcome = "Cancelled"
    /\ attempts = 60
    /\ fetches = attempts - 1
    /\ waits = attempts - 2

\* C27: a loop outcome other than Converged propagates to the operation
\* unrecovered: a Create or Update whose loop ended ConvergenceFailed,
\* TimedOut or Cancelled returns at once with an error diagnostic carrying
\* the loop's error, makes no further fetch and does not write the resource
\* into the Terraform state; and an operation that ran a loop has written
\* the state only if the loop ended Converged.
C27_FailurePropagates ==
    (op \in Ops \ DeleteOps) =>
        /\ outcome \in LoopOutcomes \ {"Converged"} =>
               /\ pc = "done"
               /\ diag = [summary |-> ErrorSummary(op), detail |-> err]
               /\ err # NilErr
               /\ finalReads = 0
               /\ ~stateSet
        /\ (stateSet /\ attempts > 0) =>
               /\ outcome = "Converged"
               /\ err = NilErr
               /\ diag = NoDiag
        /\ (InLoop \/ pc = "read") => ~stateSet

C27_Witness ==
    /\ op = "NodePoolUpdate"
    /\ outcome = "TimedOut"
    /\ pc = "done"
    /\ diag # NoDiag
    /\ ~stateSet

\* C29: every completed inter-attempt wait of every loop lasts the same 10
\* seconds, whatever the attempt number, the observed status and the budget:
\* each completed wait adds 10 seconds, so the time waited is 10 seconds
\* times the number of completed waits, plus less than 10 seconds of a
\* wait the cancellation interrupted.
C29_FixedDelay ==
    /\ [][waits' = waits + 1 => waited' = waited + 10]_vars
    /\ [](IF outcome = "Cancelled"
          THEN waited >= 10 * waits /\ waited < 10 * waits + 10
          ELSE waited = 10 * waits)

C29_Witness ==
    /\ op = "ClusterDelete"
    /\ pc = "call"
    /\ waits = 3
    /\ waited = 30
    /\ n = 3

\* the update request of Cluster.Update was accepted
UpdateAccepted ==
    \/ InLoop
    \/ pc = "read"
    \/ outcome # "none"
    \/ finalReads > 0

\* C30: Cluster.Update lists the default node pool before it issues the
\* update request, and after an accepted request it polls that node pool
\* (not the cluster) if and only if the node count the listing reported
\* differs from the planned node count: when they differ the loop is
\* entered with the budget of the planned count and every polling fetch
\* reads a node pool; when they are equal no polling fetch is made, no loop
\* is entered and the update goes straight to the final cluster read.
C30_UpdatePollsOnChange ==
    (op = "ClusterUpdate") =>
        /\ mutations > 0 => defaultNodeCount \in ReportedNodeCounts
        /\ pc = "list" => mutations = 0
        /\ (UpdateAccepted /\ defaultNodeCount # planned) =>
               /\ attempts = calculateRetryAttempts(planned)
               /\ (pc = "read" \/ finalReads > 0) =>
                      (outcome = "Converged" /\ fetches >= 1)
        /\ fetches > 0 =>
               /\ defaultNodeCount # planned
               /\ last \in ShowResponses("nodepool")
                              \cup {TransportError("context canceled")}
        /\ defaultNodeCount = planned =>
               /\ fetches = 0
               /\ attempts = 0
               /\ outcome = "none"
               /\ ~InLoop
               /\ UpdateAccepted => (pc = "read" \/ finalReads = 1)
        /\ finalReads > 0 =>
               lastRead \in ShowResponses("cluster")
                               \cup {TransportError("context canceled")}

C30_Witness ==
    /\ op = "ClusterUpdate"
    /\ defaultNodeCount = planned
    /\ mutations = 1
    /\ fetches = 0
    /\ finalReads = 1
    /\ stateSet

\* what a loop of operation o with budget b does when it runs alone against
\* a script, from its call number k + 1 on
RECURSIVE AloneFrom(_, _, _, _)
AloneFrom(o, b, script, k) ==
    LET e == RetryableFunc(o, ScriptResponse(o, script, k + 1))
        d == RetryDecision(o, e, k, b)
    IN  IF d # "select"
        THEN [fetches |-> k + 1, waits |-> k, outcome |-> OutcomeOf(d)]
        ELSE IF script.cancelAt = k + 1
        THEN [fetches |-> k + 1, waits |-> k, outcome |-> "Cancelled"]
        ELSE IF ~LoopContinues(k + 1, b)
        THEN [fetches |-> k + 1, waits |-> k + 1, outcome |-> "TimedOut"]
        ELSE AloneFrom(o, b, script, k + 1)

Alone(i) ==
    AloneFrom(loops[i].op, AttemptsFor(loops[i].op, loops[i].nodeCount),
              loops[i].script, 0)

\* C28: two polling loops running concurrently for different resource
\* instances share no mutable state: a step of one loop leaves the attempt
\* counter and every other part of the other loop as they were, and under
\* every interleaving a loop that has ended made the number of fetches and
\* of waits and reached the outcome it reaches when it runs alone with the
\* same fetch results.
C28_LoopsIndependent ==
    /\ [][\A i \in Instances :
            loops[i]' # loops[i] =>
                \A j \in Instances \ {i} : loops[j]' = loops[j]]_vars
    /\ [](\A i \in Instances :
            loops[i].pc = "done" =>
                [fetches |-> loops[i].fetches, waits |-> loops[i].waits,
                 outcome |-> loops[i].outcome] = Alone(i))

C28_Witness ==
    /\ loops["first"].pc = "done"
    /\ loops["first"].outcome = "TimedOut"
    /\ loops["first"].fetches = 60
    /\ loops["second"].pc = "done"
    /\ loops["second"].outcome = "Converged"
    /\ loops["second"].op = "ClusterCreate"
    /\ loops["second"].fetches = 3

\* the mutating request was answered and the answer is one the handler does
\* not accept: a transport error, a status other than 200 for a create or
\* an update, a status of 400 or above for a delete, or a missing body
NotAccepted ==
    /\ op \in Ops
    /\ mutations > 0
    /\ \/ mutated.err # Nil
       \/ (op \notin DeleteOps /\ mutated.code # 200)
       \/ (op \in DeleteOps /\ mutated.code >= 400)
       \/ ~mutated.body

\* C31: when the mutating request is not accepted (transport error; status
\* other than 200 for a create or an update; status 400 or above or a
\* missing body for a delete, a 404 for an object already gone included),
\* the operation ends with an error diagnostic, has made no status fetch
\* and entered no loop, and has written nothing to the state; and an
\* operation goes past its mutating request only when it was accepted.
C31_RejectedMutation ==
    /\ NotAccepted =>
           /\ pc = "done"
           /\ diag # NoDiag
           /\ diag.summary = ErrorSummary(op)
           /\ fetches = 0
           /\ finalReads = 0
           /\ attempts = 0
           /\ outcome = "none"
           /\ ~stateSet
           /\ ~stateRemoved
    /\ (op \in Ops /\ mutations > 0 /\ ~NotAccepted) =>
           mutated = Object(FALSE, "", 0)

C31_Witness ==
    /\ op = "NodePoolDelete"
    /\ mutated = HttpResponse(404)
    /\ pc = "done"
    /\ diag # NoDiag
    /\ fetches = 0

\* C32: in the cluster update and the node pool update, after the loop
\* ended Converged exactly one more fetch refreshes the model; when that
\* fetch fails the update ends with an error diagnostic and the state is
\* not written although the loop converged; an update that polled, saw k
\* pending observations and succeeded has made k + 2 fetches in all.
C32_RefreshAfterLoop ==
    (op \in UpdateOps /\ outcome = "Converged") =>
        /\ finalReads <= 1
        /\ finalReads = 0 <=> pc = "read"
        /\ finalReads = 1 =>
               /\ pc = "done"
               /\ IsObject(lastRead) <=> stateSet
               /\ IsObject(lastRead) <=> diag = NoDiag
               /\ ~IsObject(lastRead) => diag.summary = ErrorSummary(op)
        /\ stateSet =>
               /\ waits = fetches - 1
               /\ Len(errorLog) = waits
               /\ OnlyPendingLogged
               /\ fetches + finalReads = waits + 2

C32_Witness ==
    /\ op = "ClusterUpdate"
    /\ outcome = "Converged"
    /\ waits = 2
    /\ fetches = 3
    /\ finalReads = 1
    /\ stateSet

\* the debug logger has run for configuration c
HasLogged(c) == exchange[c].stage \in {"logged", "sent"}

\* the token occurs in a text
Occurs(token, text) ==
    \E i \in 1..(Len(text) - Len(token) + 1) :
        SubSeq(text, i, i + Len(token) - 1) = token

\* C33: the debug request logger never writes the bearer token value: for
\* any two configured tokens the messages logged for otherwise identical
\* requests are identical, the only trace of the Authorization header,
\* which is set when the logger runs, is the line giving the scheme as
\* bearer, and no logged text contains a non-empty token.
C33_TokenNotLogged ==
    /\ \A c, d \in Configurations :
           (HasLogged(c) /\ HasLogged(d)) =>
               exchange[c].logged = exchange[d].logged
    /\ \A c \in Configurations :
           HasLogged(c) =>
               /\ exchange[c].req.authorization
                      = BearerPrefix \o exchange[c].token
               /\ \E i \in 1..Len(exchange[c].logged) :
                      exchange[c].logged[i]
                          = Line("Auth Type", "bearer", 0, << >>)
               /\ \A i \in 1..Len(exchange[c].logged) :
                      /\ exchange[c].logged[i].key # "Has Auth"
                      /\ exchange[c].token # << >> =>
                             ~Occurs(exchange[c].token,
                                     exchange[c].logged[i].text)

C33_Witness ==
    /\ HasLogged("one")
    /\ HasLogged("other")
    /\ exchange["one"].token = <<"b", "A">>
    /\ exchange["other"].token = << >>
    /\ exchange["one"].built.method = "POST"

\* C34: the debug request logger leaves the request unchanged: after it
\* has run, the body the transport reads is byte for byte the body the
\* request was built with and every other part of the request is as the
\* first editor left it; the cut at 1000 characters applies to the logged
\* text alone; and the logger returns no error.
C34_RequestUnchanged ==
    \A c \in Configurations :
        /\ HasLogged(c) =>
               /\ exchange[c].err = Nil
               /\ [exchange[c].req EXCEPT !.body = NoBody]
                      = [authClientOption(exchange[c].built,
                                          exchange[c].token)
                            EXCEPT !.body = NoBody]
               /\ exchange[c].req.body.present
                      = exchange[c].built.body.present
               /\ exchange[c].built.method = "POST" =>
                      \E i \in 1..Len(exchange[c].logged) :
                          /\ exchange[c].logged[i].key = "Body"
                          /\ Len(exchange[c].logged[i].text)
                                 <= LogBodyLimit + Len(Truncated)
        /\ exchange[c].stage = "logged" =>
               Remaining(exchange[c].req.body) = exchange[c].built.body.bytes
        /\ exchange[c].stage = "sent" =>
               exchange[c].sent = exchange[c].built.body.bytes

C34_Witness ==
    /\ exchange["one"].stage = "sent"
    /\ Len(exchange["one"].built.body.bytes) > LogBodyLimit
    /\ exchange["one"].sent = exchange["one"].built.body.bytes
    /\ \E i \in 1..Len(exchange["one"].logged) :
           /\ exchange["one"].logged[i].key = "Body"
           /\ Len(exchange["one"].logged[i].text)
                  = LogBodyLimit + Len(Truncated)

====
